---- MODULE Spec2Model ----
(***************************************************************************)
(* Model of src/simple_server.py: the SimpleAPIServer adapter that turns a *)
(* configuration of REST endpoints into callable tools.                    *)
(*                                                                         *)
(* Representation.                                                         *)
(*  - A Python str whose characters matter (URL, body template, argument   *)
(*    value, response body, result text) is a sequence of strings; the     *)
(*    Python string is the concatenation of the elements.  Templates and   *)
(*    argument values are written one character per element, so that       *)
(*    str.replace works on them character by character.                    *)
(*  - Optional[T] is a sequence of length 0 (None) or 1.                   *)
(*  - A dict whose iteration order matters (arguments, parameters) is a    *)
(*    sequence of [k, v] items with distinct keys, in insertion order; a   *)
(*    dict whose order does not matter (headers, auth_config, os.environ)  *)
(*    is a function.                                                       *)
(*  - A call that can raise returns [ok |-> TRUE, val |-> v] or            *)
(*    [ok |-> FALSE, exc |-> e].                                           *)
(***************************************************************************)
EXTENDS Integers, Sequences, FiniteSets, TLC

VARIABLES
    pc,        \* position of main(): "start", "loaded", "ready", "serving",
               \* "exited" (returned) or "failed" (raised)
    config,    \* self.config: None or the loaded ServerConfig
    session,   \* self.session: "none", "open" or "closed"
    env,       \* os.environ
    calls,     \* one record per invocation of _handle_call_tool
    sent,      \* the requests issued on self.session, in order
    tools,     \* what the last _handle_list_tools returned (None before)
    passes,    \* per listed endpoint: properties after each schema pass
    clients,   \* how many aiohttp.ClientSession objects have been created
    heap       \* the dicts the invocations have created, by reference

vars == <<pc, config, session, env, calls, sent, tools, passes, clients, heap>>

----------------------------------------------------------------------------
(* Python values                                                           *)

None == <<>>
Some(x) == <<x>>

EmptyDict == <<>>

\* dict.get(k, d) on an unordered dict
Get(m, k, d) == IF k \in DOMAIN m THEN m[k] ELSE d

\* m[k] = v on an unordered dict
Put(m, k, v) == [x \in (DOMAIN m) \cup {k} |-> IF x = k THEN v ELSE m[x]]

\* {**a, **b} and a.update(b): the entries of b override those of a
Merge(a, b) == [x \in (DOMAIN a) \cup (DOMAIN b) |-> IF x \in DOMAIN b THEN b[x] ELSE a[x]]

\* ordered dicts: sequences of [k, v] items
Keys(d) == {d[i].k : i \in DOMAIN d}
Has(d, k) == k \in Keys(d)
Lookup(d, k) == d[CHOOSE i \in DOMAIN d : d[i].k = k].v
GetItem(d, k, dflt) == IF Has(d, k) THEN Lookup(d, k) ELSE dflt

\* s.startswith(p)
StartsWith(s, p) == Len(s) >= Len(p) /\ SubSeq(s, 1, Len(p)) = p

\* A str is a sequence whose elements are characters, or pieces of text
\* that stand for several characters where the code handles the piece as
\* a whole (a URL scheme, a literal of an f-string, a message, a name).
\* Chars gives the characters of an element.  The one element of BodyDeep
\* stands for 100000 characters and b64encode's marker for an encoding;
\* they are kept whole.
Chars(e) ==
    CASE e = "http://" ->
            <<"h", "t", "t", "p", ":", "/", "/">>
      [] e = "https://" ->
            <<"h", "t", "t", "p", "s", ":", "/", "/">>
      [] e = "Error: " ->
            <<"E", "r", "r", "o", "r", ":", " ">>
      [] e = "Failed to call tool '" ->
            <<"F", "a", "i", "l", "e", "d", " ", "t", "o", " ", "c", "a",
              "l", "l", " ", "t", "o", "o", "l", " ", "'">>
      [] e = "': " ->
            <<"'", ":", " ">>
      [] e = "Tool '" ->
            <<"T", "o", "o", "l", " ", "'">>
      [] e = "' not found" ->
            <<"'", " ", "n", "o", "t", " ", "f", "o", "u", "n", "d">>
      [] e = "HTTP " ->
            <<"H", "T", "T", "P", " ">>
      [] e = ": " ->
            <<":", " ">>
      [] e = "API Response (Status: " ->
            <<"A", "P", "I", " ", "R", "e", "s", "p", "o", "n", "s", "e",
              " ", "(", "S", "t", "a", "t", "u", "s", ":", " ">>
      [] e = "):\n\n" ->
            <<")", ":", "\n", "\n">>
      [] e = "\n  " ->
            <<"\n", " ", " ">>
      [] e = "error" ->
            <<"e", "r", "r", "o", "r">>
      [] e = "missing" ->
            <<"m", "i", "s", "s", "i", "n", "g">>
      [] e = "get_user" ->
            <<"g", "e", "t", "_", "u", "s", "e", "r">>
      [] e = "create_user" ->
            <<"c", "r", "e", "a", "t", "e", "_", "u", "s", "e", "r">>
      [] e = "nope" ->
            <<"n", "o", "p", "e">>
      [] e = "tok" ->
            <<"t", "o", "k">>
      [] e = "cv" ->
            <<"c", "v">>
      [] e = "ev" ->
            <<"e", "v">>
      [] e = "dd" ->
            <<"d", "d">>
      [] e = "Bearer " ->
            <<"B", "e", "a", "r", "e", "r", " ">>
      [] e = "Basic " ->
            <<"B", "a", "s", "i", "c", " ">>
      [] e = "application/json" ->
            <<"a", "p", "p", "l", "i", "c", "a", "t", "i", "o", "n", "/",
              "j", "s", "o", "n">>
      [] e = "Path parameter: " ->
            <<"P", "a", "t", "h", " ", "p", "a", "r", "a", "m", "e", "t",
              "e", "r", ":", " ">>
      [] e = "Query parameter: " ->
            <<"Q", "u", "e", "r", "y", " ", "p", "a", "r", "a", "m", "e",
              "t", "e", "r", ":", " ">>
      [] e = "Cannot connect to host x:80" ->
            <<"C", "a", "n", "n", "o", "t", " ", "c", "o", "n", "n", "e",
              "c", "t", " ", "t", "o", " ", "h", "o", "s", "t", " ", "x",
              ":", "8", "0">>
      [] e = "Invalid IPv6 URL" ->
            <<"I", "n", "v", "a", "l", "i", "d", " ", "I", "P", "v", "6",
              " ", "U", "R", "L">>
      [] e = "IPvFuture address is invalid" ->
            <<"I", "P", "v", "F", "u", "t", "u", "r", "e", " ", "a", "d",
              "d", "r", "e", "s", "s", " ", "i", "s", " ", "i", "n", "v",
              "a", "l", "i", "d">>
      [] e = "An IPv4 address cannot be in brackets" ->
            <<"A", "n", " ", "I", "P", "v", "4", " ", "a", "d", "d", "r",
              "e", "s", "s", " ", "c", "a", "n", "n", "o", "t", " ", "b",
              "e", " ", "i", "n", " ", "b", "r", "a", "c", "k", "e", "t",
              "s">>
      [] e = "' does not appear to be an IPv4 or IPv6 address" ->
            <<"'", " ", "d", "o", "e", "s", " ", "n", "o", "t", " ", "a",
              "p", "p", "e", "a", "r", " ", "t", "o", " ", "b", "e", " ",
              "a", "n", " ", "I", "P", "v", "4", " ", "o", "r", " ", "I",
              "P", "v", "6", " ", "a", "d", "d", "r", "e", "s", "s">>
      [] e = "'NoneType' object has no attribute 'request'" ->
            <<"'", "N", "o", "n", "e", "T", "y", "p", "e", "'", " ", "o",
              "b", "j", "e", "c", "t", " ", "h", "a", "s", " ", "n", "o",
              " ", "a", "t", "t", "r", "i", "b", "u", "t", "e", " ", "'",
              "r", "e", "q", "u", "e", "s", "t", "'">>
      [] e = "Session is closed" ->
            <<"S", "e", "s", "s", "i", "o", "n", " ", "i", "s", " ", "c",
              "l", "o", "s", "e", "d">>
      [] e = "maximum recursion depth exceeded while decoding a JSON array from a unicode string" ->
            <<"m", "a", "x", "i", "m", "u", "m", " ", "r", "e", "c", "u",
              "r", "s", "i", "o", "n", " ", "d", "e", "p", "t", "h", " ",
              "e", "x", "c", "e", "e", "d", "e", "d", " ", "w", "h", "i",
              "l", "e", " ", "d", "e", "c", "o", "d", "i", "n", "g", " ",
              "a", " ", "J", "S", "O", "N", " ", "a", "r", "r", "a", "y",
              " ", "f", "r", "o", "m", " ", "a", " ", "u", "n", "i", "c",
              "o", "d", "e", " ", "s", "t", "r", "i", "n", "g">>
      [] e = "netloc '" ->
            <<"n", "e", "t", "l", "o", "c", " ", "'">>
      [] e = "' contains invalid characters under NFKC normalization" ->
            <<"'", " ", "c", "o", "n", "t", "a", "i", "n", "s", " ", "i",
              "n", "v", "a", "l", "i", "d", " ", "c", "h", "a", "r", "a",
              "c", "t", "e", "r", "s", " ", "u", "n", "d", "e", "r", " ",
              "N", "F", "K", "C", " ", "n", "o", "r", "m", "a", "l", "i",
              "z", "a", "t", "i", "o", "n">>
      [] e = "None" -> <<"N", "o", "n", "e">>
      [] e = "" -> <<>>
      [] OTHER -> <<e>>

RECURSIVE Characters(_)
Characters(s) == IF s = <<>> THEN <<>> ELSE Chars(Head(s)) \o Characters(Tail(s))

\* p occurs in s at some position, element by element
Occurs(s, p) ==
    \E i \in 0..(Len(s) - Len(p)) :
        (p # <<>> => s[i + 1] = p[1]) /\ SubSeq(s, i + 1, i + Len(p)) = p

\* p in s: the characters of p occur in the characters of s.  An
\* occurrence element by element is one character by character, so that
\* is tried first.
Contains(s, p) == Occurs(s, p) \/ Occurs(Characters(s), Characters(p))

\* str.replace(old, new): every non-overlapping occurrence, left to right
\* (old is never empty here)
RECURSIVE Replace(_, _, _)
Replace(s, old, new) ==
    IF Len(s) < Len(old) THEN s
    ELSE IF StartsWith(s, old)
         THEN new \o Replace(SubSeq(s, Len(old) + 1, Len(s)), old, new)
         ELSE <<Head(s)>> \o Replace(Tail(s), old, new)

Digit(d) == CASE d = 0 -> "0" [] d = 1 -> "1" [] d = 2 -> "2" [] d = 3 -> "3"
              [] d = 4 -> "4" [] d = 5 -> "5" [] d = 6 -> "6" [] d = 7 -> "7"
              [] d = 8 -> "8" [] d = 9 -> "9"

\* str(n) for an int
RECURSIVE IntStr(_)
IntStr(n) ==
    IF n < 0 THEN <<"-">> \o IntStr(0 - n)
    ELSE IF n < 10 THEN <<Digit(n)>>
    ELSE IntStr(n \div 10) \o <<Digit(n % 10)>>

\* Argument values are JSON scalars, tagged by type:
\*   [t |-> "str", s |-> chars], [t |-> "int", n |-> n],
\*   [t |-> "bool", b |-> b], [t |-> "null"]
\* str(value)
PyStr(val) ==
    CASE val.t = "str"  -> val.s
      [] val.t = "int"  -> IntStr(val.n)
      [] val.t = "bool" -> IF val.b THEN <<"T", "r", "u", "e">>
                                    ELSE <<"F", "a", "l", "s", "e">>
      [] val.t = "null" -> <<"N", "o", "n", "e">>

\* f"{{{param}}}": the placeholder of a one-character parameter name
Placeholder(name) == <<"{", name, "}">>

----------------------------------------------------------------------------
(* _build_tool_schema                                                      *)

EmptySchema == [properties |-> EmptyDict, required |-> <<>>]

\* lines 113-118: every path parameter is a required string
RECURSIVE PathPass(_, _)
PathPass(path_params, acc) ==
    IF path_params = <<>> THEN acc
    ELSE LET param == Head(path_params) IN
         PathPass(Tail(path_params),
                  [properties |-> Put(acc.properties, param,
                                      [type |-> "string",
                                       description |-> <<"Path parameter: ", param>>]),
                   required |-> Append(acc.required, param)])

\* lines 121-128: every query parameter, typed from its declaration
QueryProperty(param, param_config) ==
    [type |-> Get(param_config, "type", "string"),
     description |-> Get(param_config, "description", <<"Query parameter: ", param>>)]

RECURSIVE QueryPass(_, _, _)
QueryPass(query_params, parameters, acc) ==
    IF query_params = <<>> THEN acc
    ELSE LET param == Head(query_params)
             param_config == GetItem(parameters, param, EmptyDict)
         IN  QueryPass(Tail(query_params), parameters,
                  [properties |-> Put(acc.properties, param,
                                      QueryProperty(param, param_config)),
                   required |-> IF Get(param_config, "required", FALSE)
                                THEN Append(acc.required, param)
                                ELSE acc.required])

\* lines 131-135: the remaining declarations, verbatim
RECURSIVE ParamPass(_, _)
ParamPass(items, acc) ==
    IF items = <<>> THEN acc
    ELSE LET param_name == Head(items).k
             param_config == Head(items).v
         IN  ParamPass(Tail(items),
                  IF param_name \notin DOMAIN acc.properties
                  THEN [properties |-> Put(acc.properties, param_name, param_config),
                        required |-> IF Get(param_config, "required", FALSE)
                                     THEN Append(acc.required, param_name)
                                     ELSE acc.required]
                  ELSE acc)

AfterPath(endpoint) == PathPass(endpoint.path_params, EmptySchema)
AfterQuery(endpoint) == QueryPass(endpoint.query_params, endpoint.parameters, AfterPath(endpoint))
AfterParams(endpoint) == ParamPass(endpoint.parameters, AfterQuery(endpoint))

_build_tool_schema(endpoint) ==
    [name |-> endpoint.name,
     description |-> endpoint.description,
     inputSchema |-> [type |-> "object",
                      properties |-> AfterParams(endpoint).properties,
                      required |-> AfterParams(endpoint).required]]

SchemaTrace(endpoint) ==
    [endpoint |-> endpoint.name,
     path |-> AfterPath(endpoint).properties,
     query |-> AfterQuery(endpoint).properties,
     params |-> AfterParams(endpoint).properties]

----------------------------------------------------------------------------
(* _prepare_auth_headers                                                   *)

\* os.getenv(var)
getenv(environ, var) == IF var \in DOMAIN environ THEN Some(environ[var]) ELSE None

\* truth value of an Optional[str]: None and "" are false
Truthy(opt) == opt # None /\ opt[1] # ""

\* endpoint.auth_config.get(field) or os.getenv(var)
ConfigOrEnv(auth_config, field, environ, var) ==
    IF field \in DOMAIN auth_config /\ auth_config[field] # ""
    THEN Some(auth_config[field])
    ELSE getenv(environ, var)

\* base64.b64encode(...).decode(): an injective encoding of its argument,
\* kept symbolic
b64encode(text) == <<"b64(">> \o text \o <<")">>

\* variant: the header is written without testing the token
BearerHeadersUnchecked(auth_config, environ) ==
    LET token == ConfigOrEnv(auth_config, "token", environ, "API_TOKEN") IN
    ("Authorization" :> <<"Bearer ", IF token = None THEN "None" ELSE token[1]>>)

\* lines 164-167
BearerHeaders(auth_config, environ) ==
    LET token == ConfigOrEnv(auth_config, "token", environ, "API_TOKEN") IN
    IF Truthy(token) THEN ("Authorization" :> <<"Bearer ", token[1]>>)
    ELSE EmptyDict

\* lines 169-175
BasicHeaders(auth_config, environ) ==
    LET username == ConfigOrEnv(auth_config, "username", environ, "API_USERNAME")
        password == ConfigOrEnv(auth_config, "password", environ, "API_PASSWORD")
    IN  IF Truthy(username) /\ Truthy(password)
        THEN ("Authorization" :>
                (<<"Basic ">> \o b64encode(<<username[1], ":", password[1]>>)))
        ELSE EmptyDict

\* lines 177-181
ApiKeyHeaders(auth_config, environ) ==
    LET api_key == ConfigOrEnv(auth_config, "key", environ, "API_KEY")
        header_name == Get(auth_config, "header", "X-API-Key")
    IN  IF Truthy(api_key) THEN (header_name :> <<api_key[1]>>)
        ELSE EmptyDict

_prepare_auth_headers(endpoint, environ) ==
    IF endpoint.auth_type = Some("bearer")
        THEN BearerHeaders(endpoint.auth_config, environ)
    ELSE IF endpoint.auth_type = Some("basic")
        THEN BasicHeaders(endpoint.auth_config, environ)
    ELSE IF endpoint.auth_type = Some("api_key")
        THEN ApiKeyHeaders(endpoint.auth_config, environ)
    ELSE EmptyDict

----------------------------------------------------------------------------
(* Request construction                                                    *)

Ok(v) == [ok |-> TRUE, val |-> v]
\* msg is str(e), a text
Raise(type, msg) == [ok |-> FALSE, exc |-> [type |-> type, msg |-> msg]]

\* The arguments of a call: None or a dict.
NoArguments == [kind |-> "none"]
Dict(items) == [kind |-> "dict", items |-> items]

\* arguments or {}
OrEmptyDict(arguments) ==
    IF arguments.kind = "none" THEN Dict(<<>>) ELSE arguments

\* urllib.parse.urljoin(base, url) as line 191 calls it.  The base is
\* "scheme://" (one element, "http://" or "https://") followed by netloc
\* and path, one character per element; the url is relative, one character
\* per element.  Neither contains "?", "#", ";", a quote, a backslash,
\* white space or a control character, and the url contains no ":".  A
\* character outside ASCII is written as its code point ("U+2100") and is
\* one of NonAscii.
Elems(s) == {s[i] : i \in DOMAIN s}

\* unicodedata.normalize('NFKC', c) of the characters outside ASCII
NFKC(c) ==
    CASE c = "U+2100" -> <<"a", "/", "c">>
      [] c = "U+2105" -> <<"c", "/", "o">>
      [] c = "U+FF0F" -> <<"/">>
      [] c = "U+FF1A" -> <<":">>
      [] c = "U+FF20" -> <<"@">>
      [] c = "U+FF03" -> <<"#">>
      [] c = "U+FF1F" -> <<"?">>
      [] c = "U+FF48" -> <<"h">>
      [] c = "U+2102" -> <<"C">>
      [] c = "U+00B5" -> <<"U+03BC">>
      [] OTHER -> <<c>>

NonAscii ==
    {"U+2100", "U+2105", "U+FF0F", "U+FF1A", "U+FF20", "U+FF03", "U+FF1F",
     "U+FF48", "U+2102", "U+00B5", "U+03BC", "U+00E9", "U+00DF"}

\* s.isascii()
isascii(s) == Elems(s) \cap NonAscii = {}

\* unicodedata.normalize('NFKC', s): none of the characters combines with
\* its neighbours, so the normal form is that of the characters in turn
RECURSIVE normalize(_)
normalize(s) == IF s = <<>> THEN <<>> ELSE NFKC(Head(s)) \o normalize(Tail(s))

\* s.split(sep)
RECURSIVE Split(_, _)
Split(s, sep) ==
    IF sep \notin Elems(s) THEN <<s>>
    ELSE LET i == CHOOSE i \in DOMAIN s : s[i] = sep /\ \A j \in 1..(i - 1) : s[j] # sep
         IN  <<SubSeq(s, 1, i - 1)>> \o Split(SubSeq(s, i + 1, Len(s)), sep)

\* sep.join(parts)
RECURSIVE Join(_, _)
Join(parts, sep) ==
    IF parts = <<>> THEN <<>>
    ELSE IF Len(parts) = 1 THEN parts[1]
    ELSE parts[1] \o <<sep>> \o Join(Tail(parts), sep)

DecDigits == {"0", "1", "2", "3", "4", "5", "6", "7", "8", "9"}
HexDigits == DecDigits \cup {"a", "b", "c", "d", "e", "f", "A", "B", "C", "D", "E", "F"}

DigitValue(c) == CHOOSE d \in 0..9 : Digit(d) = c

RECURSIVE DecValue(_)
DecValue(s) == IF s = <<>> THEN 0
               ELSE 10 * DecValue(SubSeq(s, 1, Len(s) - 1)) + DigitValue(s[Len(s)])

\* _parse_octet does not raise
IsOctet(octet) ==
    /\ octet # <<>>
    /\ Elems(octet) \subseteq DecDigits
    /\ Len(octet) <= 3
    /\ Len(octet) > 1 => octet[1] # "0"
    /\ DecValue(octet) <= 255

IsIPv4Octets(octets) == Len(octets) = 4 /\ \A n \in 1..4 : IsOctet(octets[n])

\* ipaddress.IPv4Address(h) does not raise
IsIPv4(h) == IsIPv4Octets(Split(h, "."))

\* _parse_hextet does not raise
IsHextet(part) == part # <<>> /\ Elems(part) \subseteq HexDigits /\ Len(part) <= 4

\* _ip_int_from_string on the parts of an address without an IPv4 suffix,
\* once "::" (the empty part at k, if there is one) has been looked for
IsIPv6Skipping(parts, k) ==
    LET n == Len(parts)
        parts_hi == IF parts[1] = <<>> THEN k - 2 ELSE k - 1
        parts_lo == IF parts[n] = <<>> THEN n - k - 1 ELSE n - k
    IN  /\ parts[1] = <<>> => parts_hi = 0
        /\ parts[n] = <<>> => parts_lo = 0
        /\ parts_hi + parts_lo <= 7
        /\ \A i \in (1..parts_hi) \cup ((n - parts_lo + 1)..n) : IsHextet(parts[i])

IsIPv6Parts(parts, skips) ==
    /\ Len(parts) <= 9
    /\ Cardinality(skips) <= 1
    /\ IF skips # {}
       THEN IsIPv6Skipping(parts, CHOOSE i \in skips : TRUE)
       ELSE Len(parts) = 8 /\ \A i \in 1..Len(parts) : IsHextet(parts[i])

\* an IPv4 suffix is replaced by its two hextets
WithoutSuffix(split, suffix) ==
    IF suffix THEN SubSeq(split, 1, Len(split) - 1) \o << <<"0">>, <<"0">> >> ELSE split

IsIPv6Split(split, last, suffix) ==
    /\ Len(split) >= 3
    /\ suffix => IsIPv4(last)
    /\ IsIPv6Parts(WithoutSuffix(split, suffix),
                   {i \in 2..(Len(split) - 1) : split[i] = <<>>})

IsIPv6Addr(split) ==
    IsIPv6Split(split, split[Len(split)], "." \in Elems(split[Len(split)]))

IsIPv6Scoped(h, addr) ==
    /\ "%" \in Elems(h) =>
          /\ Len(h) > Len(addr) + 1
          /\ "%" \notin Elems(SubSeq(h, Len(addr) + 2, Len(h)))
    /\ addr # <<>>
    /\ IsIPv6Addr(Split(addr, ":"))

\* ipaddress.IPv6Address(h) does not raise
IsIPv6(h) == IsIPv6Scoped(h, Split(h, "%")[1])

\* re.match(r"\Av[a-fA-F0-9]+\..+\Z", h)
IsIPvFuture(h) ==
    /\ h # <<>> /\ h[1] = "v"
    /\ \E k \in 3..(Len(h) - 1) :
          h[k] = "." /\ \A j \in 2..(k - 1) : h[j] \in HexDigits

\* netloc.partition('[')[2].partition(']')[0]
AfterFirst(s, before) == SubSeq(s, Len(before) + 2, Len(s))

BracketedHost(netloc) == Split(AfterFirst(netloc, Split(netloc, "[")[1]), "]")[1]

\* _check_bracketed_host
CheckBracketedHost(netloc, host) ==
    IF host # <<>> /\ host[1] = "v"
    THEN IF IsIPvFuture(host) THEN Ok(netloc)
         ELSE Raise("ValueError", <<"IPvFuture address is invalid">>)
    ELSE IF IsIPv4(host)
         THEN Raise("ValueError", <<"An IPv4 address cannot be in brackets">>)
    ELSE IF IsIPv6(host) THEN Ok(netloc)
    ELSE Raise("ValueError",
               <<"'">> \o host \o <<"' does not appear to be an IPv4 or IPv6 address">>)

\* _checknetloc once "@", ":", "#" and "?" have been taken out (n) and the
\* rest normalised (netloc2)
CheckNormalized(netloc, n, netloc2) ==
    IF n = netloc2 THEN Ok(netloc)
    ELSE IF Elems(netloc2) \cap {"/", "?", "#", "@", ":"} # {}
    THEN Raise("ValueError",
               <<"netloc '">> \o netloc
               \o <<"' contains invalid characters under NFKC normalization">>)
    ELSE Ok(netloc)

WithoutDelimiters(netloc) == SelectSeq(netloc, LAMBDA c : c \notin {"@", ":", "#", "?"})

CheckNormalizedOf(netloc, n) == CheckNormalized(netloc, n, normalize(n))

\* urllib.parse._checknetloc: Ok(netloc) or the ValueError raised
_checknetloc(netloc) ==
    IF netloc = <<>> \/ isascii(netloc) THEN Ok(netloc)
    ELSE CheckNormalizedOf(netloc, WithoutDelimiters(netloc))

\* _checknetloc runs when the checks of the brackets have passed
ThenChecknetloc(checked) == IF checked.ok THEN _checknetloc(checked.val) ELSE checked

\* urlsplit's checks of a netloc: Ok(netloc) or the ValueError raised
CheckNetloc(netloc) ==
    IF ("[" \in Elems(netloc)) # ("]" \in Elems(netloc))
    THEN Raise("ValueError", <<"Invalid IPv6 URL">>)
    ELSE IF "[" \notin Elems(netloc) THEN _checknetloc(netloc)
    ELSE ThenChecknetloc(CheckBracketedHost(netloc, BracketedHost(netloc)))

\* _splitnetloc: what follows "//" up to the first "/"
NetlocOf(rest) == Split(rest, "/")[1]

Netloc(base) == NetlocOf(Tail(base))

BasePath(base) == SubSeq(base, 2 + Len(Netloc(base)), Len(base))

\* the loop of urljoin over the segments: ".." drops the last resolved
\* segment if there is one, "." is skipped
RECURSIVE ResolveSegments(_, _)
ResolveSegments(segments, resolved) ==
    IF segments = <<>> THEN resolved
    ELSE LET seg == Head(segments) IN
         ResolveSegments(Tail(segments),
             IF seg = <<".", ".">>
             THEN (IF resolved = <<>> THEN resolved
                   ELSE SubSeq(resolved, 1, Len(resolved) - 1))
             ELSE IF seg = <<".">> THEN resolved
             ELSE Append(resolved, seg))

\* base_parts: the segments of the base path without the last one, unless
\* that is empty
BaseParts(split_base) ==
    IF split_base[Len(split_base)] # <<>>
    THEN SubSeq(split_base, 1, Len(split_base) - 1)
    ELSE split_base

\* segments[1:-1] = filter(None, segments[1:-1])
FilterMiddle(all) ==
    IF Len(all) <= 2 THEN all
    ELSE <<all[1]>>
         \o SelectSeq(SubSeq(all, 2, Len(all) - 1), LAMBDA seg : seg # <<>>)
         \o <<all[Len(all)]>>

Segments(bpath, path) ==
    IF path[1] = "/" THEN Split(path, "/")
    ELSE FilterMiddle(BaseParts(Split(bpath, "/")) \o Split(path, "/"))

\* the resolved segments, with "" appended when the last segment was "."
\* or ".."
Resolved(segments) ==
    IF segments[Len(segments)] \in {<<".">>, <<".", ".">>}
    THEN Append(ResolveSegments(segments, <<>>), <<>>)
    ELSE ResolveSegments(segments, <<>>)

\* '/'.join(resolved_path) or '/'
OrRoot(joined) == IF joined = <<>> THEN <<"/">> ELSE joined

\* the path urljoin resolves from the path of the base and a non-empty
\* relative path
ResolvedPath(bpath, path) == OrRoot(Join(Resolved(Segments(bpath, path)), "/"))

\* urlunparse of scheme, netloc and path
Unparse(scheme, netloc, path) ==
    IF netloc = <<>> /\ Len(path) >= 2 /\ SubSeq(path, 1, 2) = <<"/", "/">>
    THEN <<scheme>> \o SubSeq(path, 3, Len(path))
    ELSE <<scheme>> \o netloc
         \o (IF path # <<>> /\ path[1] # "/" THEN <<"/">> ELSE <<>>) \o path

\* urljoin once both netlocs have passed urlsplit: a url with a netloc
\* replaces netloc and path, an empty path keeps the path of the base
JoinParts(base, bnetloc, netloc, path) ==
    IF netloc # <<>> THEN Unparse(Head(base), netloc, path)
    ELSE IF path = <<>> THEN Unparse(Head(base), bnetloc, BasePath(base))
    ELSE Unparse(Head(base), bnetloc, ResolvedPath(BasePath(base), path))

JoinChecked(base, bnetloc, netloc, path) ==
    IF ~bnetloc.ok THEN bnetloc
    ELSE IF ~netloc.ok THEN netloc
    ELSE Ok(JoinParts(base, bnetloc.val, netloc.val, path))

\* the netloc and the path of a url that starts with "//"
UrlNetloc(url) == NetlocOf(SubSeq(url, 3, Len(url)))
UrlPath(url, netloc) == SubSeq(url, 3 + Len(netloc), Len(url))

urljoin(base, url) ==
    IF base = <<>> THEN Ok(url)
    ELSE IF url = <<>> THEN Ok(base)
    ELSE IF Len(url) >= 2 /\ SubSeq(url, 1, 2) = <<"/", "/">>
    THEN JoinChecked(base, CheckNetloc(Netloc(base)), CheckNetloc(UrlNetloc(url)),
                     UrlPath(url, UrlNetloc(url)))
    ELSE JoinChecked(base, CheckNetloc(Netloc(base)), Ok(<<>>), url)

\* lines 194-196
RECURSIVE ReplacePathParams(_, _, _)
ReplacePathParams(path_params, arguments, url) ==
    IF path_params = <<>> THEN Ok(url)
    ELSE LET param == Head(path_params) IN
         ReplacePathParams(Tail(path_params), arguments,
             IF Has(arguments.items, param)
             THEN Replace(url, Placeholder(param), PyStr(Lookup(arguments.items, param)))
             ELSE url)

IsAbsolute(url) == StartsWith(url, <<"http://">>) \/ StartsWith(url, <<"https://">>)

\* lines 187-191
JoinedUrl(cfg, endpoint) ==
    IF cfg.base_url # None /\ cfg.base_url[1] # <<>> /\ ~IsAbsolute(endpoint.url)
    THEN urljoin(cfg.base_url[1], endpoint.url)
    ELSE Ok(endpoint.url)

\* lines 194-196 on the joined url; an exception of urljoin goes on
ReplaceInJoined(joined, endpoint, arguments) ==
    IF joined.ok
    THEN ReplacePathParams(endpoint.path_params, arguments, joined.val)
    ELSE joined

_build_url(cfg, endpoint, arguments) ==
    ReplaceInJoined(JoinedUrl(cfg, endpoint), endpoint, arguments)

RECURSIVE QueryLoop(_, _, _)
QueryLoop(query_params, arguments, params) ==
    IF query_params = <<>> THEN Ok(params)
    ELSE LET param == Head(query_params) IN
         QueryLoop(Tail(query_params), arguments,
             IF Has(arguments.items, param)
             THEN Put(params, param, PyStr(Lookup(arguments.items, param)))
             ELSE params)

_build_query_params(endpoint, arguments) ==
    QueryLoop(endpoint.query_params, arguments, EmptyDict)

\* lines 215-216
RECURSIVE ReplaceKeys(_, _)
ReplaceKeys(items, body) ==
    IF items = <<>> THEN body
    ELSE ReplaceKeys(Tail(items),
                     Replace(body, Placeholder(Head(items).k), PyStr(Head(items).v)))

\* lines 210-217
_build_request_body(endpoint, arguments) ==
    IF endpoint.body_template = None \/ endpoint.body_template[1] = <<>> THEN None
    ELSE Some(ReplaceKeys(arguments.items, endpoint.body_template[1]))

\* variant: the endpoint's static headers are applied last
RequestHeadersEndpointLast(cfg, endpoint, environ) ==
    Merge(Merge(cfg.global_headers, _prepare_auth_headers(endpoint, environ)),
          endpoint.headers)

\* lines 237-238
RequestHeaders(cfg, endpoint, environ) ==
    Merge(Merge(cfg.global_headers, endpoint.headers),
          _prepare_auth_headers(endpoint, environ))

\* lines 226-230: the first endpoint with that name
FindEndpoint(cfg, name) ==
    LET hits == {i \in DOMAIN cfg.endpoints : cfg.endpoints[i].name = name}
    IN  IF hits = {} THEN None
        ELSE Some(cfg.endpoints[CHOOSE i \in hits : \A j \in hits : i <= j])

\* lines 236-249: the arguments of self.session.request, or the exception
\* raised while computing them
BuildRequest(cfg, environ, endpoint, arguments) ==
    LET args == OrEmptyDict(arguments)
        url == _build_url(cfg, endpoint, args)
        query_params == _build_query_params(endpoint, args)
    IN  IF ~url.ok THEN url
        ELSE IF ~query_params.ok THEN query_params
        ELSE Ok([method |-> endpoint.method,
                 url |-> url.val,
                 headers |-> RequestHeaders(cfg, endpoint, environ),
                 params |-> query_params.val,
                 data |-> _build_request_body(endpoint, args)])

----------------------------------------------------------------------------
(* Response handling in _handle_call_tool                                  *)

\* Response bodies of the model and what json.loads / json.dumps(indent=2)
\* do with them.
BodyError == <<"{", "\"", "error", "\"", ":", "\"", "missing", "\"", "}">>
BodyErrorPretty ==
    <<"{", "\n  ", "\"", "error", "\"", ": ", "\"", "missing", "\"", "\n", "}">>
BodyNumber == <<"7">>
BodyPlain == <<"o", "k">>
BodyEmpty == <<>>
\* the one element stands for "[" repeated 100000 times
BodyDeep == <<"[[[[[[[[ ... [ (100000 times)">>

\* lines 254-258: json.dumps(json.loads(response_text), indent=2), the raw
\* text on json.JSONDecodeError; any other exception of json.loads is not
\* caught here
FormatResponse(response_text) ==
    CASE response_text = BodyError  -> Ok(BodyErrorPretty)
      [] response_text = BodyNumber -> Ok(BodyNumber)
      [] response_text = BodyPlain  -> Ok(response_text)
      [] response_text = BodyEmpty  -> Ok(response_text)
      [] response_text = BodyDeep   ->
            Raise("RecursionError",
                  <<"maximum recursion depth exceeded while decoding a JSON array from a unicode string">>)

\* a handler that returned [TextContent(type="text", text=...)]
Returned(text) ==
    [pc |-> "done", result |-> <<[type |-> "text", text |-> text]>>, fault |-> None]
\* a handler that let an exception out
Propagated(exc) == [pc |-> "raised", result |-> <<>>, fault |-> Some(exc)]

\* line 233
NotFoundText(name) == <<"Tool '", name, "' not found">>

\* lines 271-274: except Exception
FaultText(name, exc) == <<"Error: ", "Failed to call tool '", name, "': ">> \o exc.msg
\* the exception classes that are not subclasses of Exception: BaseException
\* itself and its direct subclasses other than Exception
NotCaught ==
    {"BaseException", "BaseExceptionGroup", "CancelledError", "GeneratorExit",
     "KeyboardInterrupt", "SystemExit"}

\* line 271: except Exception catches the subclasses of Exception; an
\* exception of a class that derives from BaseException only passes the
\* clause (asyncio.CancelledError is what a cancelled task receives at its
\* await, BaseExceptionGroup what a task group raises for such members)
ExceptClause(name, exc) ==
    IF exc.type \in NotCaught THEN Propagated(exc)
    ELSE [pc |-> "done", result |-> <<[type |-> "text", text |-> FaultText(name, exc)]>>,
          fault |-> Some(exc)]

\* lines 260-269
HttpErrorText(status, formatted_response) ==
    <<"Error: ", "HTTP ">> \o IntStr(status) \o <<": ">> \o formatted_response
SuccessText(status, formatted_response) ==
    <<"API Response (Status: ">> \o IntStr(status) \o <<"):\n\n">> \o formatted_response

\* lines 254-269, what leaves the async with block once the body is there:
\* the text of the return statement, or the exception of json.loads that
\* line 257 does not catch
Classify(status, response_text) ==
    LET formatted_response == FormatResponse(response_text) IN
    IF ~formatted_response.ok THEN formatted_response
    ELSE IF status >= 400 THEN Ok(HttpErrorText(status, formatted_response.val))
    ELSE Ok(SuccessText(status, formatted_response.val))

\* the handler once __aexit__ has returned: the return statement
\* completes, an exception that left the block meets line 271
AfterBlock(name, out) ==
    IF out.ok THEN Returned(out.val) ELSE ExceptClause(name, out.exc)

----------------------------------------------------------------------------
(* Configuration defaults (pydantic models, lines 40-61)                   *)

APIEndpoint(name, url) ==
    [name |-> name, description |-> <<"d">>, method |-> "GET", url |-> url,
     headers |-> EmptyDict, parameters |-> <<>>, path_params |-> <<>>,
     query_params |-> <<>>, body_template |-> None, auth_type |-> None,
     auth_config |-> EmptyDict]

ServerConfig(endpoints) ==
    [name |-> "Simple API MCP Server", version |-> "1.0.0", base_url |-> None,
     global_headers |-> EmptyDict, endpoints |-> endpoints]

----------------------------------------------------------------------------
(* State machine                                                           *)

\* One invocation: where it is, its inputs, what it returned, and (for
\* the properties) the exception that met its except clause and the
\* response it handled.  The coroutine suspends three times: pc is
\* "awaiting" in self.session.request (line 244, __aenter__ of the async
\* with), "reading" in response.text() (line 251) and "closing" in the
\* __aexit__ that runs when the block is left, by line 263, by line 266 or
\* by an exception.  It ends "done" (returned) or "raised" (let an
\* exception out).  headers and query_params are the locals of lines 237
\* and 240, references to dicts; status is response.status while the body
\* is awaited; leaving is what leaves the block while __aexit__ runs.
IdleCall ==
    [pc |-> "idle", name |-> "", arguments |-> NoArguments, result |-> <<>>,
     fault |-> None, headers |-> None, query_params |-> None, status |-> None,
     leaving |-> None, response |-> None]

\* References to dicts.  self.config.global_headers is one dict for the
\* whole run, kept in config; the dicts an invocation creates are kept in
\* heap.
GlobalHeaders == <<"global_headers", 0>>
LocalHeaders(i) == <<"headers", i>>
LocalParams(i) == <<"query_params", i>>
LocalRefs(ncalls) ==
    {LocalHeaders(i) : i \in 1..ncalls} \cup {LocalParams(i) : i \in 1..ncalls}

\* the dict a reference points to
Deref(cfg, h, ref) == IF ref = GlobalHeaders THEN cfg.global_headers ELSE h[ref][1]

\* the configuration and the heap once the dict at ref holds value
ConfigWith(cfg, ref, value) ==
    IF ref = GlobalHeaders THEN [cfg EXCEPT !.global_headers = value] ELSE cfg
HeapWith(h, ref, value) ==
    IF ref = GlobalHeaders THEN h ELSE [h EXCEPT ![ref] = Some(value)]

\* variant: headers is the configuration's own dict, updated in place
\* (headers = self.config.global_headers; headers.update(...))
HeadersObjectShared(i) == GlobalHeaders

\* line 237: {**self.config.global_headers, **endpoint.headers} is a new
\* dict, and it is the one line 238 updates
HeadersObject(i) == LocalHeaders(i)

\* the state after SimpleAPIServer(config_path), lines 65-68
InitWith(environs, ncalls) ==
    /\ pc = "start"
    /\ config = None
    /\ session = "none"
    /\ env \in environs
    /\ calls = [i \in 1..ncalls |-> IdleCall]
    /\ sent = <<>>
    /\ tools = None
    /\ passes = None
    /\ clients = 0
    /\ heap = [ref \in LocalRefs(ncalls) |-> None]

\* load_config succeeds (lines 82-92)
LoadConfig(c) ==
    /\ pc = "start"
    /\ pc' = "loaded"
    /\ config' = Some(c)
    /\ UNCHANGED <<session, env, calls, sent, tools, passes, clients, heap>>

\* variant: cleanup leaves the session as it is
cleanupWithoutClose(s) == s

\* cleanup (lines 102-105): close the session if there is one
cleanup(s) == IF s = "open" THEN "closed" ELSE s

\* load_config raises; main logs, runs cleanup and re-raises (lines 94-96,
\* 310-315)
LoadConfigFails ==
    /\ pc = "start"
    /\ pc' = "failed"
    /\ session' = cleanup(session)
    /\ UNCHANGED <<config, env, calls, sent, tools, passes, clients, heap>>

\* setup_session (lines 98-100, 290)
SetupSession ==
    /\ pc = "loaded"
    /\ session' = "open"
    /\ clients' = clients + 1
    /\ pc' = "ready"
    /\ UNCHANGED <<config, env, calls, sent, tools, passes, heap>>

\* stdio_server() is entered and app.run starts to dispatch (lines 297-308)
RunServer ==
    /\ pc = "ready"
    /\ pc' = "serving"
    /\ UNCHANGED <<config, session, env, calls, sent, tools, passes, clients, heap>>

\* stdio_server() or the start of app.run raises before a request is
\* dispatched; main logs, runs cleanup and re-raises (lines 297-315)
StartupFails ==
    /\ pc = "ready"
    /\ pc' = "failed"
    /\ session' = cleanup(session)
    /\ UNCHANGED <<config, env, calls, sent, tools, passes, clients, heap>>

\* app.run returns; cleanup runs in the finally clause (lines 298-315).
\* The handlers run inside app.run, so none takes a step afterwards.
Shutdown ==
    /\ pc = "serving"
    /\ pc' = "exited"
    /\ session' = cleanup(session)
    /\ UNCHANGED <<config, env, calls, sent, tools, passes, clients, heap>>

\* app.run raises while serving; main logs, runs cleanup and re-raises
\* (lines 298-315)
ServeFails ==
    /\ pc = "serving"
    /\ pc' = "failed"
    /\ session' = cleanup(session)
    /\ UNCHANGED <<config, env, calls, sent, tools, passes, clients, heap>>

\* _handle_list_tools (lines 147-158)
ListTools ==
    /\ pc = "serving"
    /\ tools' = Some(IF config = None THEN <<>>
                     ELSE [i \in DOMAIN config[1].endpoints |->
                              _build_tool_schema(config[1].endpoints[i])])
    /\ passes' = Some(IF config = None THEN <<>>
                      ELSE [i \in DOMAIN config[1].endpoints |->
                               SchemaTrace(config[1].endpoints[i])])
    /\ UNCHANGED <<pc, config, session, env, calls, sent, clients, heap>>

\* _handle_call_tool up to its first await (lines 224-250): lookup, request
\* construction and the one self.session.request
StartOutcome(cfg, environ, name, arguments) ==
    LET endpoint == FindEndpoint(cfg, name) IN
    IF endpoint = None THEN [kind |-> "return", call |-> Returned(NotFoundText(name))]
    ELSE LET request == BuildRequest(cfg, environ, endpoint[1], arguments) IN
         IF request.ok THEN [kind |-> "request", request |-> request.val]
         ELSE [kind |-> "return", call |-> ExceptClause(name, request.exc)]

\* variant: the request is issued a second time
IssueWithRetry(requests, i, request) ==
    requests \o <<[call |-> i, request |-> request], [call |-> i, request |-> request]>>

\* line 244: the one self.session.request of an invocation
Issue(requests, i, request) == Append(requests, [call |-> i, request |-> request])

\* line 244 on a session that is not open: self.session is None, or the
\* ClientSession has been closed
SessionFault(s) ==
    IF s = "none"
    THEN [type |-> "AttributeError",
          msg |-> <<"'NoneType' object has no attribute 'request'">>]
    ELSE [type |-> "RuntimeError", msg |-> <<"Session is closed">>]

\* Invocations are numbered in the order in which app.run dispatches them:
\* invocation i starts when those before it have started.  Lines 236-241
\* run without an await: the dicts headers and query_params are written
\* where their references point, then the request is issued on the
\* session (or the call on a missing or closed session raises).
CallToolStart(i, name, arguments) ==
    /\ pc = "serving"
    /\ calls[i].pc = "idle"
    /\ \A j \in 1..(i - 1) : calls[j].pc # "idle"
    /\ LET out == StartOutcome(config[1], env, name, arguments)
           failed == IF out.kind = "request"
                     THEN ExceptClause(name, SessionFault(session))
                     ELSE out.call
       IN
       /\ IF out.kind = "request" /\ session = "open"
          THEN /\ sent' = Issue(sent, i, out.request)
               /\ calls' = [calls EXCEPT ![i] =
                               [IdleCall EXCEPT !.pc = "awaiting",
                                                !.name = name,
                                                !.arguments = arguments,
                                                !.headers = Some(HeadersObject(i)),
                                                !.query_params = Some(LocalParams(i))]]
          ELSE /\ sent' = sent
               /\ calls' = [calls EXCEPT ![i] =
                               [IdleCall EXCEPT !.pc = failed.pc,
                                                !.name = name,
                                                !.arguments = arguments,
                                                !.result = failed.result,
                                                !.fault = failed.fault]]
       /\ IF out.kind = "request"
          THEN /\ config' = Some(ConfigWith(config[1], HeadersObject(i),
                                            out.request.headers))
               /\ heap' = HeapWith(HeapWith(heap, HeadersObject(i), out.request.headers),
                                   LocalParams(i), out.request.params)
          ELSE UNCHANGED <<config, heap>>
    /\ UNCHANGED <<pc, session, env, tools, passes, clients>>

\* the response arrives (lines 244-251): the coroutine resumes from
\* self.session.request with the response and its status, and suspends
\* again in response.text()
CallToolResponse(i, status) ==
    /\ pc = "serving"
    /\ calls[i].pc = "awaiting"
    /\ calls' = [calls EXCEPT ![i].pc = "reading", ![i].status = Some(status)]
    /\ UNCHANGED <<pc, config, session, env, sent, tools, passes, clients, heap>>

\* the body arrives (lines 251-269): the coroutine resumes from
\* response.text(), runs to the return statement or to the exception of
\* json.loads, and suspends in __aexit__ on its way out of the block
CallToolText(i, response_text) ==
    /\ pc = "serving"
    /\ calls[i].pc = "reading"
    /\ calls' = [calls EXCEPT
                    ![i].pc = "closing",
                    ![i].status = None,
                    ![i].leaving =
                        Some([out |-> Classify(calls[i].status[1], response_text),
                              response |-> Some([status |-> calls[i].status[1],
                                                 text |-> response_text])])]
    /\ UNCHANGED <<pc, config, session, env, sent, tools, passes, clients, heap>>

\* __aexit__ returns (it does not suppress an exception): the handler
\* returns what the block returned, or line 271 meets the exception that
\* left the block
CallToolExit(i) ==
    /\ pc = "serving"
    /\ calls[i].pc = "closing"
    /\ LET out == AfterBlock(calls[i].name, calls[i].leaving[1].out) IN
       calls' = [calls EXCEPT ![i].pc = out.pc, ![i].result = out.result,
                              ![i].fault = out.fault,
                              ![i].leaving = None,
                              ![i].response = calls[i].leaving[1].response]
    /\ UNCHANGED <<pc, config, session, env, sent, tools, passes, clients, heap>>

\* an await of the invocation raises exc.  In self.session.request (line
\* 244) and in __aexit__ the exception meets line 271 at once, in
\* __aexit__ in place of what was leaving the block; in response.text()
\* (line 251) it leaves the block, so __aexit__ runs first.
CallToolFault(i, exc) ==
    /\ pc = "serving"
    /\ calls[i].pc \in {"awaiting", "reading", "closing"}
    /\ LET out == ExceptClause(calls[i].name, exc) IN
       calls' = IF calls[i].pc = "reading"
                THEN [calls EXCEPT ![i].pc = "closing",
                                   ![i].status = None,
                                   ![i].leaving = Some([out |-> Raise(exc.type, exc.msg),
                                                        response |-> None])]
                ELSE [calls EXCEPT ![i].pc = out.pc, ![i].result = out.result,
                                   ![i].fault = out.fault,
                                   ![i].leaving = None]
    /\ UNCHANGED <<pc, config, session, env, sent, tools, passes, clients, heap>>

----------------------------------------------------------------------------
(* Inputs of the dispatcher specification                                  *)

MaxCalls == 2

StrVal(chars) == [t |-> "str", s |-> chars]
IntVal(n) == [t |-> "int", n |-> n]
Item(k, v) == [k |-> k, v |-> v]

GetUser ==
    [APIEndpoint("get_user", <<"/", "u", "/", "{", "a", "}">>) EXCEPT
        !.path_params = <<"a">>,
        !.query_params = <<"q">>,
        !.auth_type = Some("bearer")]

CreateUser ==
    [APIEndpoint("create_user", <<"http://", "x", "/", "u">>) EXCEPT
        !.method = "POST",
        !.headers = ("Content-Type" :> <<"application/json">>),
        !.body_template = Some(<<"{", "\"", "n", "\"", ":", "\"", "{", "v", "}", "\"", "}">>)]

MainConfig ==
    [ServerConfig(<<GetUser, CreateUser>>) EXCEPT
        !.base_url = Some(<<"http://", "h", "/", "v", "/">>),
        !.global_headers = ("X-G" :> <<"g">>)]

MainEnv == ("API_TOKEN" :> "tok")

ToolNames == {"get_user", "create_user", "nope"}

\* the same configuration with a base_url that lacks its closing bracket:
\* urljoin raises ValueError("Invalid IPv6 URL") for an endpoint whose URL
\* is relative
BrokenConfig ==
    [MainConfig EXCEPT !.base_url = Some(<<"http://", "[", ":", ":", "1", "/", "v", "/">>)]

MainConfigs == {MainConfig, BrokenConfig}

MainArguments ==
    { NoArguments,
      Dict(<<Item("a", IntVal(7)), Item("q", StrVal(<<"y">>)), Item("v", StrVal(<<"x">>))>>) }

MainResponses ==
    { <<200, BodyPlain>>, <<404, BodyError>>, <<200, BodyDeep>> }

ConnectError == [type |-> "ClientConnectorError", msg |-> <<"Cannot connect to host x:80">>]

\* asyncio.CancelledError(): what the task of an invocation receives at its
\* await when it is cancelled; str(e) is empty
Cancelled == [type |-> "CancelledError", msg |-> <<>>]

MainFaults == {ConnectError, Cancelled}

Init == InitWith({MainEnv}, MaxCalls)

Next ==
    \/ \E c \in MainConfigs : LoadConfig(c)
    \/ LoadConfigFails
    \/ SetupSession
    \/ RunServer
    \/ StartupFails
    \/ Shutdown
    \/ ServeFails
    \/ ListTools
    \/ \E i \in DOMAIN calls, name \in ToolNames, arguments \in MainArguments :
          CallToolStart(i, name, arguments)
    \/ \E i \in DOMAIN calls, r \in MainResponses : CallToolResponse(i, r[1])
    \/ \E i \in DOMAIN calls, r \in MainResponses :
          calls[i].status = Some(r[1]) /\ CallToolText(i, r[2])
    \/ \E i \in DOMAIN calls : CallToolExit(i)
    \/ \E i \in DOMAIN calls, exc \in MainFaults : CallToolFault(i, exc)

Spec == Init /\ [][Next]_vars

----------------------------------------------------------------------------
(* Properties of the dispatcher                                            *)

Started(i) == calls[i].pc # "idle"
ResultText(i) == calls[i].result[1].text
\* the requests invocation i issued on the shared session
Requests(i) == {k \in DOMAIN sent : sent[k].call = i}

\* the invocation is in flight or has returned one text block
InFlightOrReturned(i) ==
    /\ calls[i].pc \in {"idle", "awaiting", "reading", "closing", "done"}
    /\ calls[i].pc = "done" =>
          /\ Len(calls[i].result) = 1
          /\ calls[i].result[1].type = "text"

\* the exception that met the except clause of invocation i is reported: the
\* text starts with "Error: " and contains the tool name and str(e)
FaultReported(i) ==
    /\ calls[i].pc = "done"
    /\ Head(ResultText(i)) = "Error: "
    /\ Contains(ResultText(i), <<calls[i].name>>)
    /\ Contains(ResultText(i), calls[i].fault[1].msg)

\* C1: an invocation never lets an exception out: once it has finished it
\* has returned exactly one text block, whatever the name, the arguments,
\* the response or the fault raised at one of its awaits; and an exception
\* it met is reported as a text that starts with "Error: " and contains
\* the tool name and the description of the fault.
C1_NeverPropagates ==
    \A i \in DOMAIN calls :
        /\ InFlightOrReturned(i)
        /\ calls[i].fault # None => FaultReported(i)

\* What the except clause of line 271 does achieve: the only exception an
\* invocation lets out is the CancelledError its task received at one of
\* its three awaits, after its one request was issued; every other
\* exception, raised while building the request, by the session, by the
\* read of the body, by json.loads or on leaving the response, is reported
\* as text.
OnlyCancellationPropagates ==
    \A i \in DOMAIN calls :
        IF calls[i].pc = "raised"
        THEN /\ calls[i].fault = Some(Cancelled)
             /\ calls[i].result = <<>>
             /\ Cardinality(Requests(i)) = 1
        ELSE /\ InFlightOrReturned(i)
             /\ calls[i].fault # None => FaultReported(i)

IsNotFound(i) ==
    /\ Len(calls[i].result) = 1
    /\ Contains(ResultText(i), <<"' not found">>)
    /\ Contains(ResultText(i), <<calls[i].name>>)

\* C2 as stated: an invocation issues exactly one request, never a
\* second, whenever its name matches an endpoint, whatever the status or
\* the fault; it issues none when no endpoint has the name, and the result
\* is then one not-found text that contains the name.
C2_OneRequestWheneverNamed ==
    \A i \in DOMAIN calls : Started(i) =>
        IF FindEndpoint(config[1], calls[i].name) # None
        THEN Cardinality(Requests(i)) = 1
        ELSE Cardinality(Requests(i)) = 0 /\ IsNotFound(i)

\* building the request of invocation i raises: the base URL is the one
\* without its closing bracket and the URL of the endpoint is relative, so
\* urljoin (line 191) raises ValueError
BuildRaises(i) ==
    /\ config[1].base_url = BrokenConfig.base_url
    /\ ~IsAbsolute(FindEndpoint(config[1], calls[i].name)[1].url)

\* C2 amended: an invocation issues exactly one request when the name
\* matches an endpoint and building the request raises no exception; it
\* issues none when no endpoint has the name (the result is then the
\* not-found text with the name) or when building the request raises (the
\* invocation has then returned the text that reports the ValueError); it
\* never issues a second request.
C2_OneRequestWhenBuilt ==
    \A i \in DOMAIN calls : Started(i) =>
        LET endpoint == FindEndpoint(config[1], calls[i].name)
            n == Cardinality(Requests(i))
        IN  /\ n <= 1
            /\ endpoint = None => n = 0 /\ IsNotFound(i)
            /\ endpoint # None =>
                  IF BuildRaises(i)
                  THEN /\ n = 0
                       /\ calls[i].fault # None
                       /\ calls[i].fault[1].type = "ValueError"
                       /\ FaultReported(i)
                  ELSE n = 1

\* C2 witness: one finished invocation named an endpoint whose request
\* could not be built and issued none, the other issued its one request
\* and got an error status
C2_Witness ==
    \E i, j \in DOMAIN calls :
        /\ calls[i].pc = "done" /\ FindEndpoint(config[1], calls[i].name) # None
        /\ BuildRaises(i) /\ Cardinality(Requests(i)) = 0
        /\ calls[j].pc = "done" /\ Cardinality(Requests(j)) = 1
        /\ calls[j].response # None /\ calls[j].response[1].status >= 400

\* the result shows the body, raw or pretty-printed
ShowsBody(text, response_text) ==
    \/ Contains(text, response_text)
    \/ FormatResponse(response_text).ok
         /\ Contains(text, FormatResponse(response_text).val)

\* C3: a completed response is classified by its status alone: from 400 on
\* the text starts with the failure prefix, below 400 it does not, and in
\* both cases it contains the status and the body, whether or not the
\* body parses.
C3_ClassifiedByStatusAlone ==
    \A i \in DOMAIN calls : calls[i].response # None =>
        LET r == calls[i].response[1] IN
        /\ calls[i].pc = "done"
        /\ (Head(ResultText(i)) = "Error: ") <=> (r.status >= 400)
        /\ Contains(ResultText(i), IntStr(r.status))
        /\ ShowsBody(ResultText(i), r.text)

----------------------------------------------------------------------------
(* Schema specification: endpoints with every overlap of path_params,      *)
(* query_params and parameters are loaded and listed.                      *)

MaxParams == 2

SeqsUpTo(S, n) == UNION {[1..k -> S] : k \in 0..n}

\* the ordered dicts with keys in K and values in V
OrderedDicts(K, V) ==
    {d \in SeqsUpTo([k : K, v : V], Cardinality(K)) :
        \A i, j \in DOMAIN d : i # j => d[i].k # d[j].k}

SchemaNames == {"a", "b"}

Declarations ==
    { EmptyDict,
      ("type" :> "integer"),
      ("type" :> "integer" @@ "required" :> TRUE),
      ("description" :> <<"dd">> @@ "required" :> TRUE) }

SchemaEndpoints ==
    { [APIEndpoint("t", <<"/", "u">>) EXCEPT
          !.path_params = pp, !.query_params = qp, !.parameters = ps] :
        pp \in SeqsUpTo(SchemaNames, MaxParams),
        qp \in SeqsUpTo(SchemaNames, MaxParams),
        ps \in OrderedDicts(SchemaNames, Declarations) }

InitSchema == InitWith({MainEnv}, 0)

NextSchema ==
    \/ \E e \in SchemaEndpoints : LoadConfig(ServerConfig(<<e>>))
    \/ LoadConfigFails
    \/ SetupSession
    \/ RunServer
    \/ ListTools
    \/ Shutdown

SpecSchema == InitSchema /\ [][NextSchema]_vars

\* C4: in every listed tool, each name of the endpoint's path_params is in
\* required and is a property of type "string", also when the name is a
\* query parameter or has a declaration of another type.
C4_PathParamsRequiredStrings ==
    tools # None =>
        \A i \in DOMAIN tools[1] :
            LET schema == tools[1][i].inputSchema
                endpoint == config[1].endpoints[i]
            IN  \A k \in DOMAIN endpoint.path_params :
                    LET param == endpoint.path_params[k] IN
                    /\ param \in Elems(schema.required)
                    /\ param \in DOMAIN schema.properties
                    /\ schema.properties[param].type = "string"

\* C5: while a schema is built, the first assignment to a property wins:
\* what the path pass set is still there after the query pass and after
\* the parameters pass, and what the query pass set is still there after
\* the parameters pass.
C5_FirstAssignmentWins ==
    passes # None =>
        \A i \in DOMAIN passes[1] :
            LET t == passes[1][i] IN
            /\ \A n \in DOMAIN t.path :
                  t.query[n] = t.path[n] /\ t.params[n] = t.path[n]
            /\ \A n \in DOMAIN t.query : t.params[n] = t.query[n]

----------------------------------------------------------------------------
(* Request specification: URL and body templates over braces and names,    *)
(* called with arguments whose values can themselves contain braces.       *)

MaxTemplateLen == 3

TemplateChars == {"{", "}", "a", "b"}
Templates == SeqsUpTo(TemplateChars, MaxTemplateLen)

RequestValues == { StrVal(<<"{", "b", "}">>), StrVal(<<>>), IntVal(7) }

UrlEndpoints ==
    { [APIEndpoint("t", url) EXCEPT !.path_params = pp] :
        url \in Templates, pp \in SeqsUpTo({"a", "b"}, 2) }

BodyEndpoints ==
    { [APIEndpoint("t", <<"/", "u">>) EXCEPT
          !.method = "POST", !.body_template = Some(body)] :
        body \in Templates }

RequestConfigs ==
    {ServerConfig(<<e>>) : e \in UrlEndpoints \cup BodyEndpoints}
    \cup {[MainConfig EXCEPT !.endpoints = <<[GetUser EXCEPT !.name = "t"]>>],
          ServerConfig(<<[CreateUser EXCEPT !.name = "t"]>>)}

RequestArguments ==
    {Dict(d) : d \in OrderedDicts({"a", "b"}, RequestValues)}
    \cup {Dict(<<Item("v", StrVal(<<"x">>))>>)}

InitRequest == InitWith({MainEnv}, 1)

NextRequest ==
    \/ \E c \in RequestConfigs : LoadConfig(c)
    \/ SetupSession
    \/ RunServer
    \/ \E i \in DOMAIN calls, arguments \in RequestArguments :
          CallToolStart(i, "t", arguments)
    \/ \E i \in DOMAIN calls : CallToolResponse(i, 200)
    \/ \E i \in DOMAIN calls : CallToolText(i, BodyPlain)
    \/ \E i \in DOMAIN calls : CallToolExit(i)

SpecRequest == InitRequest /\ [][NextRequest]_vars

\* The template with every placeholder of one of the keys replaced by the
\* string form of that key's value, in one scan: text that comes from a
\* value is not looked at again.
RECURSIVE Substitute(_, _, _)
Substitute(template, keys, items) ==
    IF template = <<>> THEN <<>>
    ELSE IF \E k \in keys : StartsWith(template, Placeholder(k))
         THEN LET k == CHOOSE k \in keys : StartsWith(template, Placeholder(k)) IN
              PyStr(Lookup(items, k))
                  \o Substitute(SubSeq(template, 4, Len(template)), keys, items)
         ELSE <<Head(template)>> \o Substitute(Tail(template), keys, items)

\* the endpoint and the arguments dict of invocation i
EndpointOf(i) == FindEndpoint(config[1], calls[i].name)[1]
ItemsOf(i) == OrEmptyDict(calls[i].arguments).items

\* C6: the URL of every request sent is the endpoint URL (joined onto the
\* base) in which each placeholder of a path parameter present in the
\* arguments is replaced by the string form of that argument, and every
\* other placeholder is left as it is; in particular what replaces one
\* placeholder does not depend on the other values.
C6_PlaceholdersReplacedIndependently ==
    \A k \in DOMAIN sent :
        LET i == sent[k].call
            endpoint == EndpointOf(i)
        IN  sent[k].request.url =
                Substitute(JoinedUrl(config[1], endpoint).val,
                           Elems(endpoint.path_params) \cap Keys(ItemsOf(i)),
                           ItemsOf(i))

\* C7: when the endpoint has a body template, the body of every request
\* sent is the template in which each placeholder of a key of the
\* arguments is replaced by the string form of that key's value, whatever
\* the order of the arguments.
C7_BodyPlaceholdersReplaced ==
    \A k \in DOMAIN sent :
        LET i == sent[k].call
            endpoint == EndpointOf(i)
        IN  (endpoint.body_template # None /\ endpoint.body_template[1] # <<>>) =>
                sent[k].request.data =
                    Some(Substitute(endpoint.body_template[1], Keys(ItemsOf(i)),
                                    ItemsOf(i)))

----------------------------------------------------------------------------
(* Header specification: every auth scheme with every credential absent,   *)
(* empty or set, in auth_config and in the environment, under global and   *)
(* endpoint headers that collide with the auth header.                     *)

\* the functions from a subset of K to V
PartialMaps(K, V) == UNION {[D -> V] : D \in SUBSET K}

FallbackVars == {"API_TOKEN", "API_USERNAME", "API_PASSWORD", "API_KEY"}

AuthEnvs ==
    PartialMaps(FallbackVars, {"ev"}) \cup {[v \in FallbackVars |-> ""]}

AuthSettings ==
    {[auth_type |-> None, auth_config |-> EmptyDict],
     [auth_type |-> Some("none"), auth_config |-> EmptyDict]}
    \cup {[auth_type |-> Some("bearer"), auth_config |-> ac] :
            ac \in PartialMaps({"token"}, {"", "cv"})}
    \cup {[auth_type |-> Some("basic"), auth_config |-> ac] :
            ac \in PartialMaps({"username", "password"}, {"", "cv"})}
    \cup {[auth_type |-> Some("api_key"), auth_config |-> ac] :
            ac \in PartialMaps({"key"}, {"", "cv"})}
    \cup {[auth_type |-> Some("api_key"), auth_config |-> ac @@ ("header" :> "X-G")] :
            ac \in PartialMaps({"key"}, {"", "cv"})}

HeaderNames == {"Authorization", "X-G"}

AuthConfigs ==
    { [ServerConfig(<<[APIEndpoint("t", <<"http://", "x", "/", "u">>) EXCEPT
                          !.headers = eh,
                          !.auth_type = a.auth_type,
                          !.auth_config = a.auth_config]>>)
         EXCEPT !.global_headers = gh] :
        a \in AuthSettings,
        gh \in PartialMaps(HeaderNames, {<<"g">>}),
        eh \in PartialMaps(HeaderNames, {<<"e">>}) }

InitAuth == InitWith(AuthEnvs, 1)

NextAuth ==
    \/ \E c \in AuthConfigs : LoadConfig(c)
    \/ SetupSession
    \/ RunServer
    \/ \E i \in DOMAIN calls : CallToolStart(i, "t", NoArguments)
    \/ \E i \in DOMAIN calls : CallToolResponse(i, 401)
    \/ \E i \in DOMAIN calls : CallToolText(i, BodyError)
    \/ \E i \in DOMAIN calls : CallToolExit(i)

SpecAuth == InitAuth /\ [][NextAuth]_vars

\* C8: the headers of every request sent are the global headers, the
\* endpoint headers and the auth headers together, and a name present in
\* several of them has the value of the last of the three that has it.
C8_HeaderPrecedence ==
    \A k \in DOMAIN sent :
        LET endpoint == EndpointOf(sent[k].call)
            sent_headers == sent[k].request.headers
            global == config[1].global_headers
            auth == _prepare_auth_headers(endpoint, env)
        IN  /\ DOMAIN sent_headers =
                  (DOMAIN global) \cup (DOMAIN endpoint.headers) \cup (DOMAIN auth)
            /\ \A n \in DOMAIN sent_headers :
                  sent_headers[n] =
                      IF n \in DOMAIN auth THEN auth[n]
                      ELSE IF n \in DOMAIN endpoint.headers THEN endpoint.headers[n]
                      ELSE global[n]

\* C8 witness: a request was sent whose Authorization header is set by all
\* three sources
C8_Witness ==
    \E k \in DOMAIN sent :
        LET endpoint == EndpointOf(sent[k].call) IN
        /\ "Authorization" \in DOMAIN config[1].global_headers
        /\ "Authorization" \in DOMAIN endpoint.headers
        /\ "Authorization" \in DOMAIN _prepare_auth_headers(endpoint, env)

\* the credential fields of a scheme and their fallback variables
SchemeFields(auth_type) ==
    IF auth_type = Some("bearer") THEN {"token"}
    ELSE IF auth_type = Some("basic") THEN {"username", "password"}
    ELSE IF auth_type = Some("api_key") THEN {"key"}
    ELSE {}

FallbackVar(field) ==
    CASE field = "token" -> "API_TOKEN"
      [] field = "username" -> "API_USERNAME"
      [] field = "password" -> "API_PASSWORD"
      [] field = "key" -> "API_KEY"

Without(m, k) == [x \in (DOMAIN m) \ {k} |-> m[x]]

\* C9: a credential field that auth_config contains is taken from
\* auth_config and its environment variable has no influence: the headers
\* of every request sent are those that would be sent with the variable
\* unset, and a non-empty bearer token, api key, and username and password
\* of auth_config are the ones in the header.
C9_ConfigWinsOverEnvironment ==
    \A k \in DOMAIN sent :
        LET endpoint == EndpointOf(sent[k].call) IN
        \A field \in SchemeFields(endpoint.auth_type) \cap DOMAIN endpoint.auth_config :
            sent[k].request.headers =
                RequestHeaders(config[1], endpoint, Without(env, FallbackVar(field)))

\* a credential is missing: neither auth_config nor the environment has a
\* non-empty value for it
Missing(endpoint, field) ==
    /\ field \notin DOMAIN endpoint.auth_config \/ endpoint.auth_config[field] = ""
    /\ FallbackVar(field) \notin DOMAIN env \/ env[FallbackVar(field)] = ""

\* C10: missing credentials are not an error: when the scheme is bearer
\* without a token, basic without username or password, api_key without a
\* key, or no scheme at all, the invocation still issues its one request,
\* with the global and endpoint headers only.
C10_MissingCredentialsUnauthenticated ==
    \A i \in DOMAIN calls : Started(i) =>
        LET endpoint == EndpointOf(i) IN
        (\/ SchemeFields(endpoint.auth_type) = {}
         \/ \E field \in SchemeFields(endpoint.auth_type) : Missing(endpoint, field))
        => /\ calls[i].fault = None
           /\ Cardinality(Requests(i)) = 1
           /\ \A k \in Requests(i) :
                  sent[k].request.headers =
                      Merge(config[1].global_headers, endpoint.headers)

\* C10 witness: requests without auth header have gone out for a bearer
\* endpoint with no token anywhere
C10_Witness ==
    \E i \in DOMAIN calls :
        /\ calls[i].pc = "done"
        /\ EndpointOf(i).auth_type = Some("bearer")
        /\ Missing(EndpointOf(i), "token")
        /\ \E k \in Requests(i) : "Authorization" \notin DOMAIN sent[k].request.headers

----------------------------------------------------------------------------
(* Concurrent invocations: both endpoints, two argument dicts that differ  *)
(* in every value; no character of a value occurs in the base URL or in a  *)
(* URL or body template of MainConfig                                      *)

ArgumentsA ==
    Dict(<<Item("a", IntVal(7)), Item("q", StrVal(<<"y">>)), Item("v", StrVal(<<"k">>))>>)

ArgumentsB ==
    Dict(<<Item("a", IntVal(8)), Item("q", StrVal(<<"z">>)), Item("v", StrVal(<<"r">>))>>)

ConcurrentNames == {"get_user", "create_user"}
ConcurrentArguments == {ArgumentsA, ArgumentsB}
ConcurrentResponses == { <<200, BodyPlain>>, <<404, BodyError>> }

InitConcurrent == InitWith({MainEnv}, MaxCalls)

NextConcurrent ==
    \/ LoadConfig(MainConfig)
    \/ SetupSession
    \/ RunServer
    \/ Shutdown
    \/ \E i \in DOMAIN calls, name \in ConcurrentNames,
            arguments \in ConcurrentArguments :
          CallToolStart(i, name, arguments)
    \/ \E i \in DOMAIN calls, r \in ConcurrentResponses : CallToolResponse(i, r[1])
    \/ \E i \in DOMAIN calls, r \in ConcurrentResponses :
          calls[i].status = Some(r[1]) /\ CallToolText(i, r[2])
    \/ \E i \in DOMAIN calls : CallToolExit(i)
    \/ \E i \in DOMAIN calls : CallToolFault(i, ConnectError)

SpecConcurrent == InitConcurrent /\ [][NextConcurrent]_vars

\* The request each endpoint of MainConfig resolves to for each of the two
\* argument dicts, written out: the URL joined onto the base with {a}
\* replaced, the global header, the endpoint header and the bearer token
\* of MainEnv, the query parameter q, and the body template with {v}
\* replaced.
ExpectedRequest(name, arguments) ==
    CASE name = "get_user" /\ arguments = ArgumentsA ->
            [method |-> "GET",
             url |-> <<"http://", "h", "/", "u", "/", "7">>,
             headers |-> ("X-G" :> <<"g">>) @@ ("Authorization" :> <<"Bearer ", "tok">>),
             params |-> ("q" :> <<"y">>),
             data |-> None]
      [] name = "get_user" /\ arguments = ArgumentsB ->
            [method |-> "GET",
             url |-> <<"http://", "h", "/", "u", "/", "8">>,
             headers |-> ("X-G" :> <<"g">>) @@ ("Authorization" :> <<"Bearer ", "tok">>),
             params |-> ("q" :> <<"z">>),
             data |-> None]
      [] name = "create_user" /\ arguments = ArgumentsA ->
            [method |-> "POST",
             url |-> <<"http://", "x", "/", "u">>,
             headers |-> ("X-G" :> <<"g">>) @@ ("Content-Type" :> <<"application/json">>),
             params |-> EmptyDict,
             data |-> Some(<<"{", "\"", "n", "\"", ":", "\"", "k", "\"", "}">>)]
      [] name = "create_user" /\ arguments = ArgumentsB ->
            [method |-> "POST",
             url |-> <<"http://", "x", "/", "u">>,
             headers |-> ("X-G" :> <<"g">>) @@ ("Content-Type" :> <<"application/json">>),
             params |-> EmptyDict,
             data |-> Some(<<"{", "\"", "n", "\"", ":", "\"", "r", "\"", "}">>)]

\* request k as the session holds it now: url and data are immutable
\* strings, headers and params are the dicts the invocation passed, read
\* through their references
LiveRequest(k) ==
    [sent[k].request EXCEPT
        !.headers = Deref(config[1], heap, calls[sent[k].call].headers[1]),
        !.params = Deref(config[1], heap, calls[sent[k].call].query_params[1])]

\* a value of the arguments of invocation j occurs in the URL, the query
\* map or the body of the request
ShowsValuesOf(request, j) ==
    \E n \in DOMAIN calls[j].arguments.items :
        LET text == PyStr(calls[j].arguments.items[n].v) IN
        \/ Contains(request.url, text)
        \/ \E key \in DOMAIN request.params : Contains(request.params[key], text)
        \/ request.data # None /\ Contains(request.data[1], text)

\* C11: however the invocations interleave at their three suspensions,
\* every request on the shared session was issued with exactly the method,
\* URL, headers, query map and body that its own endpoint and its own
\* arguments resolve to, and still has them at every later moment,
\* whatever other invocations have started, been answered or failed since:
\* its headers and query map are dicts of its own that no other
\* invocation holds; when two invocations name different endpoints and
\* have different arguments, no argument value of one shows in the request
\* of the other; and the loaded configuration is the one load_config
\* produced, whatever invocations have run.
C11_RequestsIsolated ==
    /\ config \in {None, Some(MainConfig)}
    /\ \A k \in DOMAIN sent :
          LET i == sent[k].call IN
          /\ sent[k].request = ExpectedRequest(calls[i].name, calls[i].arguments)
          /\ LiveRequest(k) = ExpectedRequest(calls[i].name, calls[i].arguments)
    /\ \A k, m \in DOMAIN sent :
          LET i == sent[k].call
              j == sent[m].call
          IN  i # j =>
                /\ calls[i].headers # calls[j].headers
                /\ calls[i].query_params # calls[j].query_params
                /\ calls[i].headers # Some(GlobalHeaders)
                /\ (calls[i].name # calls[j].name
                       /\ calls[i].arguments # calls[j].arguments)
                    => ~ShowsValuesOf(LiveRequest(k), j)

\* C11 witness: invocation j started after invocation i, on the other
\* endpoint and with the other arguments, and has returned with its
\* response while i, which has its body, is still suspended on leaving its
\* response
C11_Witness ==
    \E i, j \in DOMAIN calls :
        /\ calls[i].pc = "closing" /\ calls[i].leaving[1].response # None
        /\ calls[j].pc = "done" /\ calls[j].response # None
        /\ calls[i].name # calls[j].name
        /\ calls[i].arguments # calls[j].arguments
        /\ \E k, m \in DOMAIN sent : k < m /\ sent[k].call = i /\ sent[m].call = j
                                     /\ ShowsValuesOf(sent[m].request, j)
                                     /\ ShowsValuesOf(sent[k].request, i)

----------------------------------------------------------------------------
(* The HTTP client over the lifetime of main                               *)

Ended == pc \in {"exited", "failed"}

\* an invocation ran into a session that was missing or closed
HitSessionFault(i) ==
    calls[i].fault \in {Some(SessionFault("none")), Some(SessionFault("closed"))}

ClientStates ==
    /\ clients <= 1
    /\ clients = 1 <=> session # "none"
    /\ clients = 1 => config # None
    /\ pc \in {"ready", "serving"} => clients = 1 /\ session = "open"
    /\ Ended => session = (IF clients = 1 THEN "closed" ELSE "none")
    /\ \A i \in DOMAIN calls :
          /\ Started(i) => clients = 1
          /\ ~HitSessionFault(i)

ClientSteps ==
    /\ clients' # clients =>
          /\ pc = "loaded" /\ config # None
          /\ sent = <<>> /\ \A i \in DOMAIN calls : ~Started(i)
    /\ (calls' # calls \/ sent' # sent) => session = "open" /\ session' = "open"
    /\ session = "closed" => session' = "closed"

\* C12: main never creates a second HTTP client; the one client is created
\* after load_config has succeeded and before any invocation starts, and
\* it exists and is open whenever the server is ready or serving; when
\* main has ended, by returning or by raising, at startup or while
\* serving, a client that was created is closed and is never reopened;
\* and every step of every invocation happens while the client is open.
C12_ClientLifecycle == []ClientStates /\ [][ClientSteps]_vars

\* C12 witness: the server failed while serving, after one invocation had
\* finished and while another was suspended at its round trip, and the
\* one client is closed
C12_Witness ==
    /\ pc = "failed" /\ clients = 1 /\ session = "closed"
    /\ \E i, j \in DOMAIN calls :
          /\ calls[i].pc = "done" /\ calls[i].response # None
          /\ calls[j].pc = "awaiting"

====
